---- MODULE Spec2Model ----
(***************************************************************************)
(* A model of varmint: the varint Parser (parser.rs), the encoder loop of  *)
(* write_u64_varint (write.rs), the blocking readers over io::Read         *)
(* (read.rs) and the buffered readers over bytes::Buf (bytes_impl.rs).     *)
(*                                                                         *)
(* A u64 is modelled as the set of the positions of its one bits, a subset *)
(* of 0..63, so that the full 64-bit range is covered without 64-bit       *)
(* integers.  A byte (u8) is an integer in 0..255.                         *)
(***************************************************************************)
EXTENDS Integers, Sequences, FiniteSets, TLC

VARIABLES
    parser,     \* the Parser of the decode in progress
    pushed,     \* the bytes Parser::push has taken, in order
    outcome,    \* what the last call of Parser::push returned
    panicked,   \* a byte was pushed into a parser that was done
    val0,       \* the value given to write_u64_varint
    val,        \* write_u64_varint's val
    bytes,      \* write_u64_varint's ArrayVec
    encpc,      \* where write_u64_varint is
    sink,       \* the bytes the sink has received
    wres,       \* what the future of write_u64_varint resolved to
    fault,      \* the fault the sink raised, if it raised one
    buf,        \* the bytes of the source, consumed ones included
    pos,        \* the source's position: the number of bytes consumed
    pos0,       \* the position when the last read was called
    op,         \* the last read called
    ret,        \* what the last read returned
    chunks,     \* what was put into the source, piece by piece
    got,        \* the values the reads have returned, in order
    plog,       \* the calls the last read made on its Parser
    seen,       \* the number of bytes the source held at the last read
    prev,       \* pos0 and seen of the read before the last, if that was
                \* a try_get_u64_varint that returned Ok(None)
    usizeBits,  \* the width of usize on the platform
    apc,        \* where a suspending read is: pending or finished
    stalls      \* the polls of a suspending read that found no byte ready

vars == <<parser, pushed, outcome, panicked, val0, val, bytes, encpc, sink,
          wres, fault, buf, pos, pos0, op, ret, chunks, got, plog, seen, prev,
          usizeBits, apc, stalls>>

-----------------------------------------------------------------------------
(* u64 and u8 arithmetic as the code uses it *)

\* the width of u64 in bits
U64Bits == 64

\* 2^n, for n small enough for a byte
RECURSIVE Pow2(_)
Pow2(n) == IF n = 0 THEN 1 ELSE 2 * Pow2(n - 1)

\* bit i of the byte b
ByteBit(b, i) == (b \div Pow2(i)) % 2 = 1

\* u64::from(b) for a byte b
U64FromU8(b) == {i \in 0..7 : ByteBit(b, i)}

\* x << n on u64: bits shifted past bit 63 are lost
U64Shl(x, n) == {i + n : i \in {j \in x : j + n < U64Bits}}

\* x >> n on u64
U64Shr(x, n) == {i - n : i \in {j \in x : j >= n}}

\* x as u8: the low eight bits of x, as a byte
RECURSIVE BitsToNat(_)
BitsToNat(s) ==
    IF s = {} THEN 0
    ELSE LET i == CHOOSE j \in s : TRUE IN Pow2(i) + BitsToNat(s \ {i})

U64AsU8(x) == BitsToNat({i \in x : i < 8})

\* x > 0x7F on u64
U64GtMask(x) == \E i \in x : i >= 7

\* the carry into bit i of x + y: some lower bit generates a carry (both
\* operands have it) and every bit between propagates it (one operand has it)
U64Carry(x, y, i) ==
    \E j \in {m \in x : m \in y /\ m < i} :
        \A k \in (j + 1)..(i - 1) : k \in x \/ k \in y

\* x + y on u64: the wrapped sum, and whether the addition overflowed u64
\* (the carry out of bit 63).  When the operands share no one bit no carry
\* arises and the sum has the bits of both.
U64Add(x, y) ==
    IF x \cap y = {}
    THEN [sum |-> x \cup y, overflow |-> FALSE]
    ELSE [sum |-> {i \in 0..(U64Bits - 1) :
                      ((i \in x) # (i \in y)) # U64Carry(x, y, i)},
          overflow |-> U64Carry(x, y, U64Bits)]

-----------------------------------------------------------------------------
(* parser.rs *)

\* Parser::new
ParserNew == [done |-> FALSE, result |-> {}, offset |-> 0]

\* the offset at which the 10th byte is pushed
LastOffset == 63

\* the only 10th byte push accepts
LastByte == 1

\* push without the mask of the continuation bit: the whole byte is added
PushUnmasked(p, byte) ==
    IF p.done THEN [parser |-> p, res |-> "panic"]
    ELSE IF p.offset = LastOffset
    THEN IF byte = LastByte
         THEN LET a == U64Add(p.result, U64Shl({0}, 63))
              IN  [parser |-> [p EXCEPT !.done = TRUE, !.result = a.sum],
                   res |-> IF a.overflow THEN "overflow" ELSE "Ok"]
         ELSE [parser |-> [p EXCEPT !.done = TRUE], res |-> "LengthExceeded"]
    ELSE LET a == U64Add(p.result, U64Shl(U64FromU8(byte), p.offset))
         IN  [parser |-> [done |-> byte < 128,
                          result |-> a.sum,
                          offset |-> p.offset + 7],
              res |-> IF a.overflow THEN "overflow" ELSE "Ok"]

\* push that takes any 10th byte without continuation bit and keeps its
\* lowest bit as bit 63
PushLenient(p, byte) ==
    IF p.done THEN [parser |-> p, res |-> "panic"]
    ELSE IF p.offset = LastOffset
    THEN IF byte < 128
         THEN LET a == U64Add(p.result, U64Shl(U64FromU8(byte % 2), 63))
              IN  [parser |-> [p EXCEPT !.done = TRUE, !.result = a.sum],
                   res |-> IF a.overflow THEN "overflow" ELSE "Ok"]
         ELSE [parser |-> [p EXCEPT !.done = TRUE], res |-> "LengthExceeded"]
    ELSE LET a == U64Add(p.result, U64Shl(U64FromU8(byte % 128), p.offset))
         IN  [parser |-> [done |-> byte < 128,
                          result |-> a.sum,
                          offset |-> p.offset + 7],
              res |-> IF a.overflow THEN "overflow" ELSE "Ok"]

\* push that is done on a byte with the continuation bit set
PushDoneOnHigh(p, byte) ==
    IF p.done THEN [parser |-> p, res |-> "panic"]
    ELSE IF p.offset = LastOffset
    THEN IF byte = LastByte
         THEN LET a == U64Add(p.result, U64Shl({0}, 63))
              IN  [parser |-> [p EXCEPT !.done = TRUE, !.result = a.sum],
                   res |-> IF a.overflow THEN "overflow" ELSE "Ok"]
         ELSE [parser |-> [p EXCEPT !.done = TRUE], res |-> "LengthExceeded"]
    ELSE LET a == U64Add(p.result, U64Shl(U64FromU8(byte % 128), p.offset))
         IN  [parser |-> [done |-> byte >= 128,
                          result |-> a.sum,
                          offset |-> p.offset + 7],
              res |-> IF a.overflow THEN "overflow" ELSE "Ok"]

\* push that advances the offset by 8 for each byte
PushStep8(p, byte) ==
    IF p.done THEN [parser |-> p, res |-> "panic"]
    ELSE IF p.offset = LastOffset
    THEN IF byte = LastByte
         THEN LET a == U64Add(p.result, U64Shl({0}, 63))
              IN  [parser |-> [p EXCEPT !.done = TRUE, !.result = a.sum],
                   res |-> IF a.overflow THEN "overflow" ELSE "Ok"]
         ELSE [parser |-> [p EXCEPT !.done = TRUE], res |-> "LengthExceeded"]
    ELSE LET a == U64Add(p.result, U64Shl(U64FromU8(byte % 128), p.offset))
         IN  [parser |-> [done |-> byte < 128,
                          result |-> a.sum,
                          offset |-> p.offset + 8],
              res |-> IF a.overflow THEN "overflow" ELSE "Ok"]

\* push without the test of done: a parser that is done takes the byte
PushNoDoneCheck(p, byte) ==
    IF p.offset = LastOffset
    THEN IF byte = LastByte
         THEN LET a == U64Add(p.result, U64Shl({0}, 63))
              IN  [parser |-> [p EXCEPT !.done = TRUE, !.result = a.sum],
                   res |-> IF a.overflow THEN "overflow" ELSE "Ok"]
         ELSE [parser |-> [p EXCEPT !.done = TRUE], res |-> "LengthExceeded"]
    ELSE LET a == U64Add(p.result, U64Shl(U64FromU8(byte % 128), p.offset))
         IN  [parser |-> [done |-> byte < 128,
                          result |-> a.sum,
                          offset |-> p.offset + 7],
              res |-> IF a.overflow THEN "overflow" ELSE "Ok"]

\* Parser::push(byte): the parser after the call and what the call returned.
\* "panic" is the panic on a parser that is already done; "overflow" is an
\* addition that overflowed u64 (a panic in a debug build, the wrapped sum
\* in a release build: the wrapped sum is kept here).
Push(p, byte) ==
    IF p.done THEN [parser |-> p, res |-> "panic"]
    ELSE IF p.offset = LastOffset
    THEN IF byte = LastByte
         THEN LET a == U64Add(p.result, U64Shl({0}, 63))
              IN  [parser |-> [p EXCEPT !.done = TRUE, !.result = a.sum],
                   res |-> IF a.overflow THEN "overflow" ELSE "Ok"]
         ELSE [parser |-> [p EXCEPT !.done = TRUE], res |-> "LengthExceeded"]
    ELSE LET a == U64Add(p.result, U64Shl(U64FromU8(byte % 128), p.offset))
         IN  [parser |-> [done |-> byte < 128,
                          result |-> a.sum,
                          offset |-> p.offset + 7],
              res |-> IF a.overflow THEN "overflow" ELSE "Ok"]

\* Parser::done
Done(p) == p.done

\* Parser::result: the value, or the panic on a parser that is not done
Result(p) == IF p.done THEN [ok |-> TRUE, val |-> p.result]
             ELSE [ok |-> FALSE, val |-> {}]

-----------------------------------------------------------------------------
(* write.rs *)

\* the capacity of write_u64_varint's ArrayVec
ArrayCap == 10

\* b | 0x80 on a byte
ByteOr80(b) == IF b < 128 THEN b + 128 ELSE b

\* while val >= 0x7F
EncMoreGe(v) == U64GtMask(v) \/ (\A j \in 0..6 : j \in v)

\* while val > 0x7F
EncMore(v) == U64GtMask(v)

\* the body of the loop without | 0x80
EncLoopBodyNoFlag(v, bs) ==
    IF Len(bs) >= ArrayCap
    THEN [val |-> v, bytes |-> bs, panic |-> TRUE]
    ELSE [val |-> U64Shr(v, 7),
          bytes |-> Append(bs, U64AsU8(v)),
          panic |-> FALSE]

\* the body of the loop: bytes.push(val as u8 | 0x80); val = val >> 7.
\* ArrayVec::push panics when the array is full.
EncLoopBody(v, bs) ==
    IF Len(bs) >= ArrayCap
    THEN [val |-> v, bytes |-> bs, panic |-> TRUE]
    ELSE [val |-> U64Shr(v, 7),
          bytes |-> Append(bs, ByteOr80(U64AsU8(v))),
          panic |-> FALSE]

\* after the loop: bytes.push(val as u8)
EncLastBody(v, bs) ==
    IF Len(bs) >= ArrayCap
    THEN [val |-> v, bytes |-> bs, panic |-> TRUE]
    ELSE [val |-> v, bytes |-> Append(bs, U64AsU8(v)), panic |-> FALSE]

\* the bytes write_u64_varint hands to write_all for the value v (<<>> when
\* an ArrayVec::push panicked)
RECURSIVE EncodeFrom(_, _)
EncodeFrom(v, bs) ==
    IF EncMore(v)
    THEN LET r == EncLoopBody(v, bs)
         IN  IF r.panic THEN <<>> ELSE EncodeFrom(r.val, r.bytes)
    ELSE LET r == EncLastBody(v, bs)
         IN  IF r.panic THEN <<>> ELSE r.bytes

Encode(v) == EncodeFrom(v, <<>>)

-----------------------------------------------------------------------------
(* read.rs: the readers over io::Read.  The source is the byte sequence b
   with i bytes consumed. *)

Value(v) == [kind |-> "Value", val |-> v, err |-> ""]
None == [kind |-> "None", val |-> {}, err |-> ""]
Err(e) == [kind |-> "Err", val |-> {}, err |-> e]
Panic == [kind |-> "Panic", val |-> {}, err |-> ""]

\* read_u8 that takes the end of the source for a byte 0
ReadU8Zero(b, i) ==
    IF i < Len(b) THEN [ok |-> TRUE, byte |-> b[i + 1], pos |-> i + 1]
    ELSE [ok |-> TRUE, byte |-> 0, pos |-> i]

\* ReadHelper::read_u8: read_exact of one byte; at the end of the source it
\* fails with the source's UnexpectedEof
ReadU8(b, i) ==
    IF i < Len(b) THEN [ok |-> TRUE, byte |-> b[i + 1], pos |-> i + 1]
    ELSE [ok |-> FALSE, byte |-> 0, pos |-> i]

\* ReadHelper::try_read_u8: one read of one byte; Some(byte) when the read
\* returned 1 and None otherwise
TryReadU8(b, i) ==
    IF i < Len(b) THEN [some |-> TRUE, byte |-> b[i + 1], pos |-> i + 1]
    ELSE [some |-> FALSE, byte |-> 0, pos |-> i]

\* what an adapter returns for the parser p once its loop has ended
ParserValue(p) == IF Result(p).ok THEN Value(Result(p).val) ELSE Panic

\* what an adapter does with the return of parser.push(..)?: "go" to go on
\* with the loop, else what it returns
AfterPush(res) ==
    CASE res = "Ok" -> "go"
      [] res = "LengthExceeded" -> "LengthExceeded"
      [] OTHER -> "Panic"

\* the record of a call of Parser::result in an adapter's log
ResultCall(p) == IF Result(p).ok THEN "result" ELSE "result-panic"

\* the outcome rest of an adapter's loop, with the return res of the push
\* made before it at the head of its log
Logged(res, rest) == [rest EXCEPT !.log = <<res>> \o @]

\* read_u64_varint from parser state p on: what is returned, the position
\* of the source then, and the log of the calls made on the parser (what
\* each push returned, then "result" if result() was called)
RECURSIVE ReadU64Loop(_, _, _)
ReadU64Loop(p, b, i) ==
    IF Done(p)
    THEN [ret |-> ParserValue(p), pos |-> i, log |-> <<ResultCall(p)>>]
    ELSE LET rd == ReadU8(b, i) IN
         IF ~rd.ok
         THEN [ret |-> Err("UnexpectedEof"), pos |-> rd.pos, log |-> <<>>]
         ELSE LET r == Push(p, rd.byte) IN
              CASE AfterPush(r.res) = "go" ->
                       Logged(r.res, ReadU64Loop(r.parser, b, rd.pos))
                [] AfterPush(r.res) = "LengthExceeded" ->
                       [ret |-> Err("LengthExceeded"), pos |-> rd.pos,
                        log |-> <<r.res>>]
                [] OTHER -> [ret |-> Panic, pos |-> rd.pos, log |-> <<r.res>>]

\* read_u64_varint over a source that is read two bytes at a time: a byte
\* after the value is taken from the source with it
ReadU64VarintAhead(b, i) ==
    LET r == ReadU64Loop(ParserNew, b, i) IN
    [ret |-> r.ret,
     pos |-> IF (r.pos - i) % 2 = 1 /\ r.pos < Len(b) THEN r.pos + 1 ELSE r.pos,
     log |-> r.log]

ReadU64Varint(b, i) == ReadU64Loop(ParserNew, b, i)

\* try_read_u64_varint from parser state p on
RECURSIVE TryReadU64Loop(_, _, _)
TryReadU64Loop(p, b, i) ==
    IF Done(p)
    THEN [ret |-> ParserValue(p), pos |-> i, log |-> <<ResultCall(p)>>]
    ELSE LET rd == TryReadU8(b, i) IN
         IF ~rd.some THEN [ret |-> None, pos |-> rd.pos, log |-> <<>>]
         ELSE LET r == Push(p, rd.byte) IN
              CASE AfterPush(r.res) = "go" ->
                       Logged(r.res, TryReadU64Loop(r.parser, b, rd.pos))
                [] AfterPush(r.res) = "LengthExceeded" ->
                       [ret |-> Err("LengthExceeded"), pos |-> rd.pos,
                        log |-> <<r.res>>]
                [] OTHER -> [ret |-> Panic, pos |-> rd.pos, log |-> <<r.res>>]

TryReadU64Varint(b, i) == TryReadU64Loop(ParserNew, b, i)

-----------------------------------------------------------------------------
(* bytes_impl.rs: the readers over bytes::Buf.  The buffer is the byte
   sequence b at position i; its remaining bytes are contiguous. *)

\* Buf::get_u8: the next byte, the position advanced by one; it panics when
\* no byte remains
GetU8(b, i) ==
    IF i < Len(b) THEN [ok |-> TRUE, byte |-> b[i + 1], pos |-> i + 1]
    ELSE [ok |-> FALSE, byte |-> 0, pos |-> i]

\* Buf::bytes: the remaining bytes
BufBytes(b, i) == SubSeq(b, i + 1, Len(b))

\* get_u64_varint from parser state p on
RECURSIVE GetU64Loop(_, _, _)
GetU64Loop(p, b, i) ==
    IF Done(p)
    THEN [ret |-> ParserValue(p), pos |-> i, log |-> <<ResultCall(p)>>]
    ELSE LET g == GetU8(b, i) IN
         IF ~g.ok THEN [ret |-> Panic, pos |-> g.pos, log |-> <<>>]
         ELSE LET r == Push(p, g.byte) IN
              CASE AfterPush(r.res) = "go" ->
                       Logged(r.res, GetU64Loop(r.parser, b, g.pos))
                [] AfterPush(r.res) = "LengthExceeded" ->
                       [ret |-> Err("LengthExceeded"), pos |-> g.pos,
                        log |-> <<r.res>>]
                [] OTHER -> [ret |-> Panic, pos |-> g.pos, log |-> <<r.res>>]

GetU64Varint(b, i) == GetU64Loop(ParserNew, b, i)

\* the loop of try_get_u64_varint without the test of done
RECURSIVE TryGetScanNoDone(_, _, _)
TryGetScanNoDone(p, bs, n) ==
    IF n < Len(bs)
    THEN LET r == Push(p, bs[n + 1]) IN
         IF AfterPush(r.res) = "go"
         THEN Logged(r.res, TryGetScanNoDone(r.parser, bs, n + 1))
         ELSE [parser |-> r.parser, i |-> n, stop |-> AfterPush(r.res),
               log |-> <<r.res>>]
    ELSE [parser |-> p, i |-> n, stop |-> "go", log |-> <<>>]

\* the loop of try_get_u64_varint over the slice bs from index n (from 0)
\* on: the parser and the index when the loop ends, or the error of a push,
\* and the log of what the pushes returned
RECURSIVE TryGetScan(_, _, _)
TryGetScan(p, bs, n) ==
    IF n < Len(bs) /\ ~Done(p)
    THEN LET r == Push(p, bs[n + 1]) IN
         IF AfterPush(r.res) = "go"
         THEN Logged(r.res, TryGetScan(r.parser, bs, n + 1))
         ELSE [parser |-> r.parser, i |-> n, stop |-> AfterPush(r.res),
               log |-> <<r.res>>]
    ELSE [parser |-> p, i |-> n, stop |-> "go", log |-> <<>>]

\* try_get_u64_varint that advances before it looks at done
TryGetU64VarintEager(b, i) ==
    LET s == TryGetScan(ParserNew, BufBytes(b, i), 0) IN
    CASE s.stop = "LengthExceeded" ->
             [ret |-> Err("LengthExceeded"), pos |-> i, log |-> s.log]
      [] s.stop = "Panic" -> [ret |-> Panic, pos |-> i, log |-> s.log]
      [] OTHER -> IF Done(s.parser)
                  THEN [ret |-> ParserValue(s.parser), pos |-> i + s.i,
                        log |-> s.log \o <<ResultCall(s.parser)>>]
                  ELSE [ret |-> None, pos |-> i + s.i, log |-> s.log]

\* try_get_u64_varint
TryGetU64Varint(b, i) ==
    LET s == TryGetScan(ParserNew, BufBytes(b, i), 0) IN
    CASE s.stop = "LengthExceeded" ->
             [ret |-> Err("LengthExceeded"), pos |-> i, log |-> s.log]
      [] s.stop = "Panic" -> [ret |-> Panic, pos |-> i, log |-> s.log]
      [] OTHER -> IF Done(s.parser)
                  THEN [ret |-> ParserValue(s.parser), pos |-> i + s.i,
                        log |-> s.log \o <<ResultCall(s.parser)>>]
                  ELSE [ret |-> None, pos |-> i, log |-> s.log]

-----------------------------------------------------------------------------
(* the usize entry points of read.rs and bytes_impl.rs *)

\* the message of the io::Error read.rs makes for a value wider than usize
UsizeExceeded == "varint exceeded usize maximum bits"

\* val <= usize::max_value() as u64, on a platform whose usize has w bits
FitsUsize(v, w) == \A i \in v : i < w

\* read_usize_varint that reports a value wider than usize as LengthExceeded
ReadUsizeVarintSameError(b, i, w) ==
    LET r == ReadU64Varint(b, i) IN
    IF r.ret.kind = "Value" /\ ~FitsUsize(r.ret.val, w)
    THEN [r EXCEPT !.ret = Err("LengthExceeded")]
    ELSE r

\* read_usize_varint: read_u64_varint()?, then the test of the width
ReadUsizeVarint(b, i, w) ==
    LET r == ReadU64Varint(b, i) IN
    IF r.ret.kind = "Value" /\ ~FitsUsize(r.ret.val, w)
    THEN [r EXCEPT !.ret = Err(UsizeExceeded)]
    ELSE r

\* try_read_usize_varint: try_read_u64_varint()?, then the test of the
\* width on Some(v)
TryReadUsizeVarint(b, i, w) ==
    LET r == TryReadU64Varint(b, i) IN
    IF r.ret.kind = "Value" /\ ~FitsUsize(r.ret.val, w)
    THEN [r EXCEPT !.ret = Err(UsizeExceeded)]
    ELSE r

\* try_get_usize_varint: try_get_u64_varint()?, then the test of the width
\* on Some(v), which fails with Error::LengthExceeded
TryGetUsizeVarint(b, i, w) ==
    LET r == TryGetU64Varint(b, i) IN
    IF r.ret.kind = "Value" /\ ~FitsUsize(r.ret.val, w)
    THEN [r EXCEPT !.ret = Err("LengthExceeded")]
    ELSE r

-----------------------------------------------------------------------------
(* the bytes fed to the model *)

\* the number of leading positions of an input that draw from all of Bytes
RichLen == 3

\* continuation bytes and terminal bytes of the test vectors, and the
\* boundary bytes 0x00, 0x7F, 0x80, 0xFF
Bytes == {0, 1, 2, 127, 128, 172, 181, 255}

CoreBytes == {0, 1, 2, 127, 128, 255}

\* the bytes offered as byte number n (from 0) of one value: every byte of
\* Bytes in the first RichLen positions and as the 10th byte
InputBytes(n) == IF n < RichLen \/ n >= 9 THEN Bytes ELSE CoreBytes

-----------------------------------------------------------------------------
(* Spec: one Parser fed byte by byte *)

parserVars == <<parser, pushed, outcome, panicked>>
encVars == <<val0, val, bytes, encpc, sink, wres, fault>>
ioVars == <<buf, pos, pos0, op, ret, chunks, got, plog, seen, prev, usizeBits,
           apc, stalls>>

ParserInit ==
    /\ parser = ParserNew
    /\ pushed = <<>>
    /\ outcome = "none"
    /\ panicked = FALSE

EncIdle ==
    /\ val0 = {}
    /\ val = {}
    /\ bytes = <<>>
    /\ encpc = "idle"
    /\ sink = <<>>
    /\ wres = "none"
    /\ fault = "none"

SourceIdle ==
    /\ buf = <<>>
    /\ pos = 0
    /\ pos0 = 0
    /\ op = "none"
    /\ ret = [kind |-> "none", val |-> {}, err |-> ""]
    /\ chunks = <<>>
    /\ got = <<>>
    /\ plog = <<>>
    /\ seen = 0
    /\ prev = [none |-> FALSE, pos0 |-> 0, seen |-> 0]
    /\ apc = "idle"
    /\ stalls = 0

\* a platform whose usize is u64 (the tests' target_arch = "x86_64")
IoIdle == SourceIdle /\ usizeBits = U64Bits

Init == ParserInit /\ EncIdle /\ IoIdle

\* one call of Parser::push on the parser: pushed records the bytes of the
\* calls that returned and outcome what the last of them returned; a call
\* that panics (the parser was done) is recorded in panicked alone
PushByte(b) ==
    LET r == Push(parser, b) IN
    /\ ~panicked
    /\ parser' = r.parser
    /\ IF r.res = "panic"
       THEN panicked' = TRUE /\ UNCHANGED <<pushed, outcome>>
       ELSE /\ pushed' = Append(pushed, b)
            /\ outcome' = r.res
            /\ UNCHANGED panicked

Next ==
    /\ \E b \in InputBytes(Len(pushed)) : PushByte(b)
    /\ UNCHANGED <<encVars, ioVars>>

Spec == Init /\ [][Next]_vars

-----------------------------------------------------------------------------
(* SpecEnc: write_u64_varint step by step into a sink, and the bytes of the
   sink then fed, in order, to a fresh Parser *)

\* 2^n - 1, 2^(n-1) and 2^(n-1) + 1 for every bit length n, and the values
\* of the test vectors
U64FromNat(n) == {i \in 0..30 : (n \div Pow2(i)) % 2 = 1}

Vals ==
    {0..(n - 1) : n \in 0..U64Bits}
        \cup {{n - 1} : n \in 1..U64Bits}
        \cup {{0, n - 1} : n \in 1..U64Bits}
        \cup {U64FromNat(300), U64FromNat(4931509)}

\* the faults a sink raises
SinkFaults == {"BrokenPipe", "PermissionDenied"}

\* a single write in place of write_all: done once the sink took a byte
WriteOnce(snk, bs, n, f) ==
    [sink |-> snk \o SubSeq(bs, 1, n),
     res |-> IF n >= 1 THEN "Ok" ELSE f,
     fault |-> IF n = Len(bs) THEN "none" ELSE f]

\* tokio::write_all(w, bytes) on a sink that takes n bytes and, when that
\* is not all of bs, raises f: the bytes the sink holds then, what the
\* future resolves to and the fault the sink raised
WriteAll(snk, bs, n, f) ==
    [sink |-> snk \o SubSeq(bs, 1, n),
     res |-> IF n = Len(bs) THEN "Ok" ELSE f,
     fault |-> IF n = Len(bs) THEN "none" ELSE f]

\* .map(|(w, _)| w): the item of the future is mapped, its error is not
MapItem(res) == res

EncInit ==
    /\ ParserInit
    /\ IoIdle
    /\ val0 \in Vals
    /\ val = val0
    /\ bytes = <<>>
    /\ encpc = "loop"
    /\ sink = <<>>
    /\ wres = "none"
    /\ fault = "none"

\* one turn of the while loop
EncLoop ==
    /\ encpc = "loop"
    /\ EncMore(val)
    /\ LET r == EncLoopBody(val, bytes) IN
        /\ val' = r.val
        /\ bytes' = r.bytes
        /\ encpc' = IF r.panic THEN "panic" ELSE "loop"
    /\ UNCHANGED <<val0, sink, wres, fault, parserVars, ioVars>>

\* the loop's exit: the last byte is pushed and write_all hands the array to
\* the sink, which takes all of it, or takes n bytes of it and raises f
EncLast ==
    /\ encpc = "loop"
    /\ ~EncMore(val)
    /\ LET r == EncLastBody(val, bytes) IN
        /\ val' = r.val
        /\ bytes' = r.bytes
        /\ IF r.panic
           THEN encpc' = "panic" /\ UNCHANGED <<sink, wres, fault>>
           ELSE \E n \in 0..Len(r.bytes), f \in SinkFaults :
                   LET w == WriteAll(sink, r.bytes, n, f) IN
                   /\ sink' = w.sink
                   /\ fault' = w.fault
                   /\ wres' = MapItem(w.res)
                   /\ encpc' = IF wres' = "Ok" THEN "written" ELSE "failed"
    /\ UNCHANGED <<val0, parserVars, ioVars>>

\* the next byte of the sink is pushed into the parser
Feed ==
    /\ encpc = "written"
    /\ Len(pushed) < Len(sink)
    /\ PushByte(sink[Len(pushed) + 1])
    /\ UNCHANGED <<encVars, ioVars>>

NextEnc == EncLoop \/ EncLast \/ Feed

SpecEnc == EncInit /\ [][NextEnc]_vars

-----------------------------------------------------------------------------
(* SpecRead and SpecBuf: a source that receives encoded values and raw
   bytes, read by the io::Read adapters (SpecRead) or by the Buf adapters
   (SpecBuf) *)

\* the number of pieces put into one source
MaxChunks == 2

\* the values written into a source: 0, 0x12C, 2^63 - 1 and 2^64 - 1
IoVals == {{}, U64FromNat(300), 0..62, 0..63}

\* n times the byte b
Rep(b, n) == [k \in 1..n |-> b]

\* raw bytes put into a source: the halves of 0x12C's encoding, a lone
\* continuation byte, and ten-byte sequences with the 10th byte 0x02, 0x00
\* and 0xFF
RawChunks ==
    {<<172>>, <<2>>, <<255>>,
     Rep(255, 9) \o <<2>>, Rep(128, 9) \o <<0>>, Rep(255, 10)}

\* the source holds the encodings of values and nothing else
Clean == \A k \in 1..Len(chunks) : chunks[k].enc

IoInit ==
    /\ ParserInit
    /\ EncIdle
    /\ IoIdle

\* write_u64_varint of v into the source
PutValue(v) ==
    /\ Len(chunks) < MaxChunks
    /\ buf' = buf \o Encode(v)
    /\ chunks' = Append(chunks, [enc |-> TRUE, val |-> v, len |-> Len(Encode(v))])
    /\ UNCHANGED <<pos, pos0, op, ret, got, plog, seen, prev, usizeBits,
                   apc, stalls, parserVars, encVars>>

\* raw bytes arrive in the source
PutRaw(bs) ==
    /\ Len(chunks) < MaxChunks
    /\ buf' = buf \o bs
    /\ chunks' = Append(chunks, [enc |-> FALSE, val |-> {}, len |-> Len(bs)])
    /\ UNCHANGED <<pos, pos0, op, ret, got, plog, seen, prev, usizeBits,
                   apc, stalls, parserVars, encVars>>

\* a call of the reader named name, which returned r
Call(name, r) ==
    /\ op' = name
    /\ pos0' = pos
    /\ pos' = r.pos
    /\ ret' = r.ret
    /\ got' = IF r.ret.kind = "Value" THEN Append(got, r.ret.val) ELSE got
    /\ plog' = r.log
    /\ seen' = Len(buf)
    /\ prev' = IF op = "try_get_u64_varint" /\ ret = None
               THEN [none |-> TRUE, pos0 |-> pos0, seen |-> seen]
               ELSE [none |-> FALSE, pos0 |-> 0, seen |-> 0]
    /\ UNCHANGED <<buf, chunks, usizeBits, apc, stalls, parserVars, encVars>>

ReadU64 == Call("read_u64_varint", ReadU64Varint(buf, pos))

TryReadU64 == Call("try_read_u64_varint", TryReadU64Varint(buf, pos))

GetU64 == Call("get_u64_varint", GetU64Varint(buf, pos))

TryGetU64 == Call("try_get_u64_varint", TryGetU64Varint(buf, pos))

Put == (\E v \in IoVals : PutValue(v)) \/ (\E bs \in RawChunks : PutRaw(bs))

NextRead == Put \/ ReadU64 \/ TryReadU64

SpecRead == IoInit /\ [][NextRead]_vars

NextBuf == Put \/ GetU64 \/ TryGetU64

SpecBuf == IoInit /\ [][NextBuf]_vars

\* the widths of usize the readers are built for
UsizeWidths == {32, 64}

UsizeInit ==
    /\ ParserInit
    /\ EncIdle
    /\ SourceIdle
    /\ usizeBits \in UsizeWidths

ReadUsize == Call("read_usize_varint", ReadUsizeVarint(buf, pos, usizeBits))

TryReadUsize ==
    Call("try_read_usize_varint", TryReadUsizeVarint(buf, pos, usizeBits))

TryGetUsize ==
    Call("try_get_usize_varint", TryGetUsizeVarint(buf, pos, usizeBits))

NextUsize == Put \/ ReadUsize \/ TryReadUsize \/ TryGetUsize

SpecUsize == UsizeInit /\ [][NextUsize]_vars

\* the polls of one suspending read that may find no byte ready
MaxStalls == 2

\* the sources a suspending read is made on: up to two pieces, each the
\* encoding of a value or raw bytes
AsyncSources ==
    LET pieces == {Encode(v) : v \in IoVals} \cup RawChunks \cup {<<>>}
    IN  {a \o b : a, b \in pieces}

\* a suspending read_u64_varint was started on a source: it holds a fresh
\* parser and the source
AsyncInit ==
    /\ ParserInit
    /\ EncIdle
    /\ buf \in AsyncSources
    /\ pos = 0
    /\ pos0 = 0
    /\ op = "none"
    /\ ret = [kind |-> "none", val |-> {}, err |-> ""]
    /\ chunks = <<>>
    /\ got = <<>>
    /\ plog = <<>>
    /\ seen = 0
    /\ prev = [none |-> FALSE, pos0 |-> 0, seen |-> 0]
    /\ usizeBits = U64Bits
    /\ apc = "pending"
    /\ stalls = 0

\* a poll finds no byte ready: the read stays pending
AsyncNotReady ==
    /\ apc = "pending"
    /\ stalls < MaxStalls
    /\ stalls' = stalls + 1
    /\ UNCHANGED <<buf, pos, pos0, op, ret, chunks, got, plog, seen, prev,
                   usizeBits, apc, parserVars, encVars>>

\* a poll finds the next byte: it is pushed, and the read finishes with the
\* parser's value once that is done, or with the error of the push
AsyncByte ==
    /\ apc = "pending"
    /\ pos < Len(buf)
    /\ LET r == Push(parser, buf[pos + 1]) IN
        /\ parser' = r.parser
        /\ pushed' = Append(pushed, buf[pos + 1])
        /\ outcome' = r.res
        /\ pos' = pos + 1
        /\ CASE AfterPush(r.res) = "go" /\ ~Done(r.parser) ->
                    UNCHANGED <<apc, ret>>
             [] AfterPush(r.res) = "go" /\ Done(r.parser) ->
                    apc' = "finished" /\ ret' = ParserValue(r.parser)
             [] AfterPush(r.res) = "LengthExceeded" ->
                    apc' = "finished" /\ ret' = Err("LengthExceeded")
             [] OTHER -> apc' = "finished" /\ ret' = Panic
    /\ UNCHANGED <<buf, pos0, op, chunks, got, plog, seen, prev, usizeBits,
                   stalls, panicked, encVars>>

\* a poll finds the source at its end: the read finishes with the end-of-
\* data fault
AsyncEof ==
    /\ apc = "pending"
    /\ pos = Len(buf)
    /\ apc' = "finished"
    /\ ret' = Err("UnexpectedEof")
    /\ UNCHANGED <<buf, pos, pos0, op, chunks, got, plog, seen, prev,
                   usizeBits, stalls, parserVars, encVars>>

NextAsync == AsyncNotReady \/ AsyncByte \/ AsyncEof

SpecAsync == AsyncInit /\ [][NextAsync]_vars

\* a cursor over a byte vector is an io::Read and a Buf: all four readers
NextCursor == Put \/ ReadU64 \/ TryReadU64 \/ GetU64 \/ TryGetU64

SpecCursor == IoInit /\ [][NextCursor]_vars

-----------------------------------------------------------------------------
(* what the properties are stated with *)

\* the value whose 7-bit groups, from the lowest, are the low 7 bits of the
\* bytes of bs: the sum over k of (bs[k] & 0x7F) * 2^(7(k-1))
GroupsValue(bs) ==
    UNION {{7 * (k - 1) + j : j \in {m \in 0..6 : ByteBit(bs[k], m)}} :
               k \in 1..Len(bs)}

\* the bit length of x: 0 for 0, else one more than the highest one bit
BitLength(x) ==
    IF x = {} THEN 0 ELSE (CHOOSE m \in x : \A k \in x : k <= m) + 1

\* the low 7 bits of the byte b, as bit positions
LowBits(b) == {j \in 0..6 : ByteBit(b, j)}

\* group number k (from 0) of x: its bits 7k..7k+6, as bit positions 0..6
Group(x, k) == {j \in 0..6 : 7 * k + j \in x}

\* the source b holds, from position i on, a byte without continuation bit
HasTerminal(b, i) == \E n \in 1..(Len(b) - i) : b[i + n] < 128

\* the number of bytes from position i of b up to the first byte without
\* continuation bit, that byte included
VarintLen(b, i) ==
    CHOOSE n \in 1..(Len(b) - i) :
        /\ b[i + n] < 128
        /\ \A m \in 1..(n - 1) : b[i + m] >= 128

\* the number of bytes of the first n pieces of the source
RECURSIVE ChunksLen(_)
ChunksLen(n) == IF n = 0 THEN 0 ELSE ChunksLen(n - 1) + chunks[n].len

-----------------------------------------------------------------------------
(* the claims *)

\* C1: the bytes write_u64_varint produced for v, fed in order to a fresh
\* Parser, never make push fail or panic, and after the last of them the
\* parser is done and result() is v.
C1_RoundTrip ==
    encpc = "written" =>
        /\ ~panicked
        /\ outcome \in {"none", "Ok"}
        /\ Len(pushed) < Len(sink) => ~Done(parser)
        /\ Len(pushed) = Len(sink) =>
               /\ Done(parser)
               /\ Result(parser) = [ok |-> TRUE, val |-> val0]

C1_Witness ==
    /\ encpc = "written"
    /\ val0 = 0..63
    /\ Len(pushed) = 10
    /\ Len(pushed) = Len(sink)
    /\ Result(parser) = [ok |-> TRUE, val |-> val0]

\* C2: try_read_u64_varint returns "no value" exactly when it consumed no
\* byte: a source that ends after the first byte of a value and before its
\* last is a fault, never "no value".
C2_TruncationIsFault ==
    op = "try_read_u64_varint" => (ret.kind = "None" <=> pos = pos0)

\* C3: after nine continuation bytes, a 10th byte other than 0x00 and 0x01
\* makes push fail with LengthExceeded.
C3_OverflowRejected ==
    (Len(pushed) = 10 /\ pushed[10] \notin {0, 1}) =>
        /\ outcome = "LengthExceeded"
        /\ AfterPush(outcome) = "LengthExceeded"

C3_Witness ==
    /\ Len(pushed) = 10
    /\ pushed[1] = 172
    /\ pushed[10] = 255
    /\ outcome = "LengthExceeded"

\* C4: every sequence of 1 to 10 bytes with the continuation bit on all
\* bytes but the last and a 10th byte, if any, of 0x00 or 0x01 decodes
\* without error to the value of its groups.
C4_NonMinimalAccepted ==
    (/\ Len(pushed) \in 1..10
     /\ pushed[Len(pushed)] < 128
     /\ Len(pushed) = 10 => pushed[10] \in {0, 1}) =>
        /\ outcome = "Ok"
        /\ Done(parser)
        /\ Result(parser) = [ok |-> TRUE, val |-> GroupsValue(pushed)]

\* C5: a parser fed b0..bk, k <= 8, continuation bit on all but bk, is done
\* after bk and not before, and result() is the sum of (bi & 0x7F) * 2^(7i);
\* the four test vectors decode to 0, 1, 0x12C and 0x4B3FB5.
C5_DecodeValue ==
    /\ Len(pushed) \in 1..9 =>
           /\ outcome = "Ok"
           /\ Done(parser) <=> pushed[Len(pushed)] < 128
           /\ Result(parser).ok <=> pushed[Len(pushed)] < 128
           /\ Done(parser) => Result(parser).val = GroupsValue(pushed)
    /\ pushed = <<>> => ~Done(parser)
    /\ pushed = <<0>> => Result(parser).val = U64FromNat(0)
    /\ pushed = <<1>> => Result(parser).val = U64FromNat(1)
    /\ pushed = <<172, 2>> => Result(parser).val = U64FromNat(300)
    /\ pushed = <<181, 255, 172, 2>> => Result(parser).val = U64FromNat(4931509)

C5_Witness ==
    /\ pushed = <<181, 255, 172, 2>>
    /\ Done(parser)
    /\ Result(parser) = [ok |-> TRUE, val |-> U64FromNat(4931509)]

\* C6: write_u64_varint emits max(1, ceil(bit_length(v)/7)) bytes; the last
\* is non-zero unless v is 0, and 0 is the single byte 0x00.
C6_Minimal ==
    encpc = "written" =>
        /\ Len(sink) = (IF val0 = {} THEN 1 ELSE (BitLength(val0) + 6) \div 7)
        /\ val0 # {} => sink[Len(sink)] # 0
        /\ val0 = {} => sink = <<0>>

C6_Witness ==
    /\ encpc = "written"
    /\ val0 = {7}
    /\ Len(sink) = 2

\* C7: the encoder's loop ends with 1 to 10 bytes in the array and never
\* overruns it; every byte but the last has bit 7 set and byte i carries
\* bits 7i..7i+6 of v; the last byte has bit 7 clear; a 10th byte is emitted
\* exactly for v >= 2^63 and is 0x01.
C7_WireFormat ==
    /\ encpc # "panic"
    /\ Len(bytes) <= ArrayCap
    /\ \A k \in 1..Len(bytes) : LowBits(bytes[k]) = Group(val0, k - 1)
    /\ encpc = "loop" => \A k \in 1..Len(bytes) : bytes[k] >= 128
    /\ encpc = "written" =>
           /\ sink = bytes
           /\ Len(sink) \in 1..10
           /\ \A k \in 1..(Len(sink) - 1) : sink[k] >= 128
           /\ sink[Len(sink)] < 128
           /\ Len(sink) = 10 <=> 63 \in val0
           /\ Len(sink) = 10 => sink[10] = 1
           /\ val0 = 0..62 => sink = Rep(255, 8) \o <<127>>
           /\ val0 = 0..63 => sink = Rep(255, 9) \o <<1>>

C7_Witness ==
    /\ encpc = "written"
    /\ val0 = 0..63
    /\ sink = Rep(255, 9) \o <<1>>

\* C8: try_get_u64_varint leaves the buffer's contents alone and advances
\* its position if and only if it returns Some(v), then by the number of
\* bytes of v's encoding in the buffer; on Ok(None), returned when no
\* complete value remains, and on an error the position stays.
C8_CommitOnlyOnSuccess ==
    [][TryGetU64 =>
          /\ buf' = buf
          /\ pos' # pos <=> ret'.kind = "Value"
          /\ ret'.kind \in {"Value", "None", "Err"}
          /\ ret'.kind = "Value" =>
                 /\ HasTerminal(buf, pos)
                 /\ pos' - pos = VarintLen(buf, pos)
                 /\ ret'.val = GroupsValue(SubSeq(buf, pos + 1, pos'))
          /\ ret'.kind = "None" => ~HasTerminal(buf, pos)
          /\ ret'.kind = "Err" => ret'.err = "LengthExceeded"]_vars

C8_Witness ==
    /\ op = "try_get_u64_varint"
    /\ ret.kind = "None"
    /\ buf = <<0, 172>>
    /\ pos0 = 1
    /\ pos = 1

\* C9: when get_u64_varint fails with LengthExceeded on a varint that
\* exceeds 64 bits (its 10th byte is neither 0x00 nor 0x01), the buffer's
\* position is the position before the call.
C9_OverflowKeepsPosition ==
    (/\ op = "get_u64_varint"
     /\ ret = Err("LengthExceeded")
     /\ buf[pos0 + 10] \notin {0, 1}) => pos = pos0

\* C10: on a source that holds the encodings of values and nothing else,
\* the blocking reads return the values in the order written, each read
\* that returns a value leaves the source right after that value's
\* encoding, and a read that finds no value left consumes nothing:
\* try_read_u64_varint returns "no value" then.
C10_SequentialReads ==
    Clean =>
        /\ Len(got) <= Len(chunks)
        /\ \A k \in 1..Len(got) : got[k] = chunks[k].val
        /\ pos = ChunksLen(Len(got))
        /\ ret.kind = "Value" => pos = pos0 + chunks[Len(got)].len
        /\ ret.kind # "Value" => pos = pos0
        /\ op = "try_read_u64_varint" => ret.kind \in {"Value", "None"}
        /\ op = "read_u64_varint" =>
               ret \in {Value(ret.val), Err("UnexpectedEof")}

C10_Witness ==
    /\ Clean
    /\ got = <<0..63, U64FromNat(300)>>
    /\ op = "try_read_u64_varint"
    /\ ret = None
    /\ pos = 12

\* C16: the parser's offset is always one of 0, 7, 14, ..., 63; a push made
\* at an offset below 63 raises it by 7 and a push made at 63 leaves it 63.
C16_OffsetInvariant ==
    /\ [](parser.offset \in {7 * k : k \in 0..9})
    /\ [][pushed' # pushed =>
             IF parser.offset < 63
             THEN parser'.offset = parser.offset + 7
             ELSE parser'.offset = 63]_vars

C16_Witness ==
    /\ parser.offset = 63
    /\ Len(pushed) = 10
    /\ outcome = "Ok"

\* C17: once the parser is done, after a terminal byte as after a 10th
\* byte rejected with LengthExceeded, every further push panics and leaves
\* done, the accumulated value and the offset as they were.
C17_DoneIsTerminal ==
    [][Done(parser) =>
          /\ parser' = parser
          /\ panicked'
          /\ pushed' = pushed
          /\ outcome' = outcome]_vars

C17_Witness ==
    /\ panicked
    /\ outcome = "LengthExceeded"
    /\ Len(pushed) = 10

\* C18: done() is true, and result() yields a value, exactly when a byte
\* without continuation bit was taken at an offset below 63 or the 10th
\* byte was accepted; result() is a fault in every other state, so also
\* after a 10th byte rejected with LengthExceeded.
C18_DoneMeansValidated ==
    LET valid ==
            /\ Len(pushed) >= 1
            /\ outcome = "Ok"
            /\ pushed[Len(pushed)] < 128 \/ Len(pushed) = 10
    IN  /\ Done(parser) <=> valid
        /\ Result(parser).ok <=> valid

\* the number of calls of Parser::push in the log of the last adapter call
Pushes ==
    Cardinality({k \in 1..Len(plog) : plog[k] \notin {"result", "result-panic"}})

\* the last adapter call was made on a source that ends, at or after the
\* position of the call, before a varint is complete
Incomplete ==
    /\ seen - pos0 < 10
    /\ \A k \in (pos0 + 1)..seen : buf[k] >= 128

\* C11: in one decode by any of the four readers, whatever the source holds,
\* the parser is pushed at most 10 times and at most 10 bytes are taken from
\* the source; the 10th push ends the call with a value or LengthExceeded.
C11_AtMostTenBytes ==
    /\ Pushes <= 10
    /\ pos - pos0 <= 10
    /\ op \in {"read_u64_varint", "try_read_u64_varint", "get_u64_varint"}
          => pos - pos0 = Pushes
    /\ op = "try_get_u64_varint" => pos - pos0 \in {0, Pushes}
    /\ Pushes = 10 => ret.kind = "Value" \/ ret = Err("LengthExceeded")

C11_Witness ==
    /\ op = "read_u64_varint"
    /\ Pushes = 10
    /\ pos - pos0 = 10
    /\ Len(buf) - pos >= 10
    /\ \A k \in (pos0 + 1)..Len(buf) : buf[k] >= 128
    /\ ret = Err("LengthExceeded")

\* C12: on a source that ends before a varint is complete, the empty source
\* included, read_u64_varint returns the source's end-of-data error and
\* get_u64_varint panics; a value either of them returns is the value of a
\* complete varint that was in the source.
C12_NoValueFromIncomplete ==
    /\ (op = "read_u64_varint" /\ Incomplete) => ret = Err("UnexpectedEof")
    /\ (op = "get_u64_varint" /\ Incomplete) => ret = Panic
    /\ (op \in {"read_u64_varint", "get_u64_varint"} /\ ret.kind = "Value")
          => /\ pos0 < pos
             /\ pos <= seen
             /\ buf[pos] < 128
             /\ ret.val = GroupsValue(SubSeq(buf, pos0 + 1, pos))

C12_Witness ==
    /\ op = "read_u64_varint"
    /\ Incomplete
    /\ seen - pos0 = 2
    /\ ret = Err("UnexpectedEof")

\* C20: the four readers never push a parser that is done, never call
\* result() on a parser that is not done and never call it after a push
\* returned LengthExceeded: neither panic of the Parser is reached, and the
\* only panic of a reader is that of get_u8 on an exhausted buffer.
C20_NoParserMisuse ==
    /\ \A k \in 1..Len(plog) :
          /\ plog[k] \notin {"panic", "result-panic"}
          /\ plog[k] = "LengthExceeded" => k = Len(plog)
          /\ plog[k] = "result" => k = Len(plog) /\ k > 1 /\ plog[k - 1] = "Ok"
    /\ ret.kind = "Panic" => op = "get_u64_varint" /\ pos = seen

C20_Witness ==
    /\ op = "try_get_u64_varint"
    /\ plog = Rep("Ok", 9) \o <<"LengthExceeded">>
    /\ ret = Err("LengthExceeded")

\* C19: when try_get_u64_varint returned None on the prefix of an encoding
\* and bytes were then appended, the next try_get_u64_varint returns, and
\* consumes, what one call on the whole byte sequence returns from the
\* position the first call was made at.
C19_RetryEquivalence ==
    (op = "try_get_u64_varint" /\ prev.none) =>
        LET one == TryGetU64Varint(SubSeq(buf, 1, seen), prev.pos0)
        IN  /\ pos0 = prev.pos0
            /\ ret = one.ret
            /\ pos = one.pos

C19_Witness ==
    /\ op = "try_get_u64_varint"
    /\ prev.none
    /\ prev.pos0 = 0
    /\ prev.seen = 1
    /\ seen = 2
    /\ ret = Value(U64FromNat(300))
    /\ pos = 2

WidthOverflow ==
    LET r == TryGetU64Varint(SubSeq(buf, 1, seen), pos0).ret
    IN  r.kind = "Value" /\ ~FitsUsize(r.val, usizeBits)

C15_SuspensionTransparent ==
    /\ [][stalls' # stalls =>
             /\ parser' = parser
             /\ pos' = pos
             /\ apc' = apc
             /\ ret' = ret]_vars
    /\ [](apc = "finished" =>
             LET one == ReadU64Varint(buf, 0)
             IN  /\ ret = one.ret
                 /\ pos = one.pos)

C15_Witness ==
    /\ apc = "finished"
    /\ stalls >= 2
    /\ pos = 10
    /\ Len(buf) > 10
    /\ ret = Value(0..63)

\* the bits a push of byte at offset off adds to the accumulated value
PushedGroup(byte, off) ==
    IF off = LastOffset THEN {63} ELSE {off + j : j \in LowBits(byte)}

\* C21: before every push the accumulated value is below 2^offset, so the
\* group a push adds lies on bits that are still zero: each addition in
\* push gives the bitwise OR of its operands and none overflows 64 bits,
\* whatever bytes are pushed.
C21_AccumulatorBound ==
    /\ [](/\ ~Done(parser) => \A i \in parser.result : i < parser.offset
          /\ outcome # "overflow")
    /\ [][(pushed' # pushed /\ outcome' = "Ok") =>
             LET g == PushedGroup(pushed'[Len(pushed')], parser.offset)
             IN  /\ g \cap parser.result = {}
                 /\ parser'.result = parser.result \cup g]_vars

C21_Witness ==
    /\ Len(pushed) = 10
    /\ outcome = "Ok"
    /\ parser.offset = 63
    /\ parser.result = 0..63

====
